---- MODULE Spec2Model ----
(***************************************************************************)
(* TeleInflux: the Teleinfo frame reader (teleinflux/teleinfo.py) and the  *)
(* reading loop of Teleinflux.run (teleinflux/__init__.py).                *)
(*                                                                         *)
(* Bytes are integers, byte strings are sequences of integers.  The byte   *)
(* source is a queue of pending bytes fed by the meter segment by segment  *)
(* and closed at end of stream; read_frame consumes it one byte per step.  *)
(*                                                                         *)
(* Specifications: Spec (the loop of run), SpecReader (read_frame under    *)
(* any caller), SpecFile (run on a finite file, with fairness), SpecRecord *)
(* (the accessors of a TeleinfoFrame), SpecWrite (_write_measurement).     *)
(***************************************************************************)
EXTENDS Integers, Sequences, FiniteSets, TLC

\* ------------------------------------------------------------------------
\* Bounds of the model
\* ------------------------------------------------------------------------
\* lines per fed frame payload
MaxLines == 2
\* segments the meter emits before the model stops feeding
MaxSegments == 2
\* the meter emits a further segment only when at most this many bytes wait
MaxPending == 1
\* set() calls on one record
MaxSets == 1
\* ticks of the clock that stamps the records
MaxClock == 1
\* largest write_attempts of the configuration
MaxAttempts == 4

\* ------------------------------------------------------------------------
\* Bytes of the protocol
\* ------------------------------------------------------------------------
STX == 2
ETX == 3
SP == 32
CR == 13
LF == 10
DOT == 46
CRLF == <<CR, LF>>

\* bytes.strip() / str.strip() without argument: ASCII whitespace
Whitespace == {9, 10, 11, 12, 13, 32}

\* ------------------------------------------------------------------------
\* Byte string helpers (Python bytes methods used by the reader)
\* ------------------------------------------------------------------------
RECURSIVE Sum(_)
Sum(s) == IF s = <<>> THEN 0 ELSE Head(s) + Sum(Tail(s))

\* s[0:-2]
DropLast2(s) == IF Len(s) <= 2 THEN <<>> ELSE SubSeq(s, 1, Len(s) - 2)

RECURSIVE LStrip(_)
LStrip(s) ==
    IF s # <<>> /\ Head(s) \in Whitespace THEN LStrip(Tail(s)) ELSE s

RECURSIVE RStrip(_)
RStrip(s) ==
    IF s # <<>> /\ s[Len(s)] \in Whitespace
    THEN RStrip(SubSeq(s, 1, Len(s) - 1))
    ELSE s

\* frame_data.strip()
Strip(s) == RStrip(LStrip(s))

\* index of the first occurrence of the two-byte separator, 0 when absent
FindCRLF(s) ==
    LET hits == {i \in 1..(Len(s) - 1) : s[i] = CR /\ s[i + 1] = LF}
    IN  IF hits = {} THEN 0 ELSE CHOOSE i \in hits : \A j \in hits : i <= j

\* s.split(b'\r\n')
RECURSIVE SplitCRLF(_)
SplitCRLF(s) ==
    LET i == FindCRLF(s)
    IN  IF i = 0 THEN <<s>>
        ELSE <<SubSeq(s, 1, i - 1)>> \o SplitCRLF(SubSeq(s, i + 2, Len(s)))

\* index of the first space, 0 when absent
FindSP(s) ==
    LET hits == {i \in 1..Len(s) : s[i] = SP}
    IN  IF hits = {} THEN 0 ELSE CHOOSE i \in hits : \A j \in hits : i <= j

\* s.split(b' ', maxsplit)
RECURSIVE SplitSP(_, _)
SplitSP(s, maxsplit) ==
    LET i == FindSP(s)
    IN  IF maxsplit = 0 \/ i = 0 THEN <<s>>
        ELSE <<SubSeq(s, 1, i - 1)>> \o SplitSP(SubSeq(s, i + 1, Len(s)), maxsplit - 1)

\* ------------------------------------------------------------------------
\* The record under construction: a Python dict, as a sequence of
\* <<label, value>> pairs in insertion order
\* ------------------------------------------------------------------------
HasKey(d, k) == \E i \in 1..Len(d) : d[i][1] = k

\* d[k], for a key of d
DictGet(d, k) == d[CHOOSE i \in 1..Len(d) : d[i][1] = k][2]

\* mutant: the first value stored under a key stays
DictSet_first(d, k, v) ==
    IF HasKey(d, k) THEN d ELSE Append(d, <<k, v>>)

\* d[k] = v : overwrites in place, or inserts at the end
DictSet(d, k, v) ==
    IF HasKey(d, k)
    THEN [i \in 1..Len(d) |-> IF d[i][1] = k THEN <<k, v>> ELSE d[i]]
    ELSE Append(d, <<k, v>>)

\* ------------------------------------------------------------------------
\* TeleinfoReader._parse_frame
\* ------------------------------------------------------------------------
\* outcomes of a read_frame call
NoneResult == [kind |-> "None", fields |-> <<>>]
Raise(exc) == [kind |-> exc, fields |-> <<>>]
Frame(parsed) == [kind |-> "frame", fields |-> parsed]

\* (sum(int(b) for b in line[0:-2]) & 0x3F) + 0x20
LineSum(line) == (Sum(DropLast2(line)) % 64) + 32

\* mutant: a line that fails is skipped and the lines parsed so far are kept
RECURSIVE ParseLines_skipbad(_, _, _)
ParseLines_skipbad(lines, i, parsed) ==
    IF i > Len(lines) THEN Frame(parsed)
    ELSE LET line == lines[i]
             toks == SplitSP(line, 2)
         IN  IF Len(toks) # 3 \/ toks[3] = <<>> \/ LineSum(line) # toks[3][1]
             THEN ParseLines_skipbad(lines, i + 1, parsed)
             ELSE ParseLines_skipbad(lines, i + 1, DictSet(parsed, toks[1], toks[2]))

\* the loop over the lines, from line i on, with the dict built so far
RECURSIVE ParseLines(_, _, _)
ParseLines(lines, i, parsed) ==
    IF i > Len(lines) THEN Frame(parsed)
    ELSE LET line == lines[i]
             toks == SplitSP(line, 2)
         IN  IF Len(toks) # 3 THEN Raise("ValueError")
             ELSE IF toks[3] = <<>> THEN Raise("IndexError")
             ELSE IF LineSum(line) # toks[3][1] THEN Raise("TeleinfoException")
             ELSE ParseLines(lines, i + 1, DictSet(parsed, toks[1], toks[2]))

FrameLines(frame_data) == SplitCRLF(Strip(frame_data))

ParseFrame(frame_data) == ParseLines(FrameLines(frame_data), 1, <<>>)


\* ------------------------------------------------------------------------
\* TeleinfoFrame: typed access to the raw fields
\* ------------------------------------------------------------------------
\* mutant: PAPP is missing from the labels typed 'int'
IntLabels_noPAPP ==
    { <<73, 83, 79, 85, 83, 67>>, <<72, 67, 72, 67>>, <<72, 67, 72, 80>>,
      <<73, 73, 78, 83, 84>>, <<73, 77, 65, 88>> }

\* _FIELD_FORMAT, the labels typed 'int': ISOUSC HCHC HCHP IINST IMAX PAPP
IntLabels ==
    { <<73, 83, 79, 85, 83, 67>>, <<72, 67, 72, 67>>, <<72, 67, 72, 80>>,
      <<73, 73, 78, 83, 84>>, <<73, 77, 65, 88>>, <<80, 65, 80, 80>> }

\* _FIELD_FORMAT.get(key, 'str')
FieldFormat(key) == IF key \in IntLabels THEN "int" ELSE "str"

\* value.decode().rstrip('.')
RECURSIVE FormatStr(_)
FormatStr(value) ==
    IF value # <<>> /\ value[Len(value)] = DOT
    THEN FormatStr(SubSeq(value, 1, Len(value) - 1))
    ELSE value

IsDigit(b) == b \in 48..57

\* the text int() accepts after stripping: [sign] digit (['_'] digit)*
IsIntBody(t) ==
    /\ t # <<>>
    /\ IsDigit(t[1])
    /\ IsDigit(t[Len(t)])
    /\ \A i \in 1..Len(t) : IsDigit(t[i]) \/ t[i] = 95
    /\ \A i \in 1..(Len(t) - 1) : ~(t[i] = 95 /\ t[i + 1] = 95)

Unsigned(value) ==
    LET t == Strip(value)
    IN  IF t # <<>> /\ t[1] \in {43, 45} THEN Tail(t) ELSE t

IsIntText(value) == IsIntBody(Unsigned(value))

RECURSIVE DigitsValue(_, _)
DigitsValue(t, acc) ==
    IF t = <<>> THEN acc
    ELSE IF Head(t) = 95 THEN DigitsValue(Tail(t), acc)
    ELSE DigitsValue(Tail(t), 10 * acc + (Head(t) - 48))

\* int(value.decode()), for a value int() accepts
FormatInt(value) ==
    LET t == Strip(value)
        n == DigitsValue(Unsigned(value), 0)
    IN  IF t[1] = 45 THEN 0 - n ELSE n

\* mutant: a value int() rejects is returned as text
Get_lenient(key, value) ==
    IF FieldFormat(key) = "int" /\ IsIntText(value)
    THEN [ok |-> TRUE, type |-> "int", int |-> FormatInt(value), str |-> <<>>]
    ELSE [ok |-> TRUE, type |-> "str", int |-> 0, str |-> FormatStr(value)]

\* TeleinfoFrame.get on a present key; [ok |-> FALSE] stands for ValueError
Get(key, value) ==
    IF FieldFormat(key) = "int"
    THEN IF IsIntText(value)
         THEN [ok |-> TRUE, type |-> "int", int |-> FormatInt(value), str |-> <<>>]
         ELSE [ok |-> FALSE, type |-> "int", int |-> 0, str |-> <<>>]
    ELSE [ok |-> TRUE, type |-> "str", int |-> 0, str |-> FormatStr(value)]

\* format_fields raises when one of the fields does
FormatRaises(fields) ==
    \E i \in 1..Len(fields) : ~Get(fields[i][1], fields[i][2]).ok

\* TeleinfoFrame.format_fields, in insertion order
FormatFields(fields) ==
    [i \in 1..Len(fields) |-> <<fields[i][1], Get(fields[i][1], fields[i][2])>>]

\* ------------------------------------------------------------------------
\* TeleinfoFrame objects: the raw fields and the capture time.  A call of an
\* accessor yields the object after the call, the exception raised ("" for
\* none) and the <<key, value>> pairs returned
\* ------------------------------------------------------------------------
\* TeleinfoFrame(raw_data) constructed when the clock reads t
NewFrame(raw_data, t) == [raw_data |-> raw_data, utc_time |-> t]

\* no frame object
NoFrame == [raw_data |-> <<>>, utc_time |-> 0 - 1]

\* mutant: get keeps the text it formatted in place of the raw value
FrameGet_cache(fr, key) ==
    IF ~HasKey(fr.raw_data, key)
    THEN [frame |-> fr, exc |-> "AttributeError", out |-> <<>>]
    ELSE LET g == Get(key, DictGet(fr.raw_data, key))
         IN  [frame |-> IF g.ok /\ g.type = "str"
                        THEN [fr EXCEPT !.raw_data = DictSet(@, key, g.str)]
                        ELSE fr,
              exc |-> IF g.ok THEN "" ELSE "ValueError",
              out |-> IF g.ok THEN <<<<key, g>>>> ELSE <<>>]

\* frame.get(key): for a key the record lacks the default '' is a str, which
\* has no decode()
FrameGet(fr, key) ==
    IF ~HasKey(fr.raw_data, key)
    THEN [frame |-> fr, exc |-> "AttributeError", out |-> <<>>]
    ELSE LET g == Get(key, DictGet(fr.raw_data, key))
         IN  [frame |-> fr,
              exc |-> IF g.ok THEN "" ELSE "ValueError",
              out |-> IF g.ok THEN <<<<key, g>>>> ELSE <<>>]

\* frame.format_fields(): get on every key, in the order of the keys
RECURSIVE FormatFrom(_, _, _)
FormatFrom(fr, keys, out) ==
    IF keys = <<>> THEN [frame |-> fr, exc |-> "", out |-> out]
    ELSE LET c == FrameGet(fr, Head(keys))
         IN  IF c.exc # "" THEN [frame |-> c.frame, exc |-> c.exc, out |-> <<>>]
             ELSE FormatFrom(c.frame, Tail(keys), out \o c.out)

FrameFormatFields(fr) ==
    FormatFrom(fr, [i \in 1..Len(fr.raw_data) |-> fr.raw_data[i][1]], <<>>)

\* the decimal digits of a natural number
RECURSIVE Decimal(_)
Decimal(n) ==
    IF n < 10 THEN <<48 + n>> ELSE Decimal(n \div 10) \o <<48 + (n % 10)>>

\* a value handed to set: an int or a str, [type, int, str]
IntValue(n) == [type |-> "int", int |-> n, str |-> <<>>]
StrValue(t) == [type |-> "str", int |-> 0, str |-> t]

\* str(value)
Str(value) ==
    IF value.type = "int"
    THEN IF value.int < 0 THEN <<45>> \o Decimal(0 - value.int)
         ELSE Decimal(value.int)
    ELSE value.str

\* text.encode(): UTF-8, one byte per code point below 128 and two bytes per
\* code point below 2048
RECURSIVE Encode(_)
Encode(text) ==
    IF text = <<>> THEN <<>>
    ELSE (IF Head(text) < 128 THEN <<Head(text)>>
          ELSE <<192 + (Head(text) \div 64), 128 + (Head(text) % 64)>>)
         \o Encode(Tail(text))

\* mutant: set replaces the whole dict by the one field
FrameSet_only(fr, key, value) ==
    [fr EXCEPT !.raw_data = <<<<key, Encode(Str(value))>>>>]

\* frame.set(key, value)
FrameSet(fr, key, value) ==
    [fr EXCEPT !.raw_data = DictSet(@, key, Encode(Str(value)))]

\* ------------------------------------------------------------------------
\* TeleinfoReader.read_frame: the locals of one call and the step per byte
\* ------------------------------------------------------------------------
\* mutant: the buffer outlives the call, as an attribute of the reader would
FreshBuffer_keep(old) == old

\* frame_buffer = bytearray(); the argument is what the buffer held before
FreshBuffer(old) == <<>>

\* the call's locals on entry; done says that the call has returned
NewCall(old) ==
    [started |-> FALSE, frame_buffer |-> FreshBuffer(old),
     done |-> FALSE, result |-> NoneResult]

\* mutant: bytes read before the start marker are kept
Step_idlekeep(st, b) ==
    IF st.started
    THEN IF b = ETX
         THEN [st EXCEPT !.done = TRUE, !.result = ParseFrame(st.frame_buffer)]
         ELSE [st EXCEPT !.frame_buffer = Append(st.frame_buffer, b)]
    ELSE IF b = STX
         THEN [st EXCEPT !.started = TRUE]
         ELSE [st EXCEPT !.frame_buffer = Append(st.frame_buffer, b)]

\* mutant: a start marker read while capturing restarts the capture
Step_restart(st, b) ==
    IF b = STX
    THEN [st EXCEPT !.started = TRUE, !.frame_buffer = <<>>]
    ELSE IF st.started
         THEN IF b = ETX
              THEN [st EXCEPT !.done = TRUE, !.result = ParseFrame(st.frame_buffer)]
              ELSE [st EXCEPT !.frame_buffer = Append(st.frame_buffer, b)]
         ELSE st

\* the body of 'for b in chunk_data'
Step(st, b) ==
    IF st.started
    THEN IF b = ETX
         THEN [st EXCEPT !.done = TRUE, !.result = ParseFrame(st.frame_buffer)]
         ELSE [st EXCEPT !.frame_buffer = Append(st.frame_buffer, b)]
    ELSE IF b = STX
         THEN [st EXCEPT !.started = TRUE]
         ELSE st

\* mutant: at the end of the stream the bytes captured so far are parsed
AtEOF_flush(st) ==
    [st EXCEPT !.done = TRUE,
               !.result = IF st.started THEN ParseFrame(st.frame_buffer)
                          ELSE NoneResult]

\* 'if not chunk_data: return None'
AtEOF(st) == [st EXCEPT !.done = TRUE, !.result = NoneResult]

\* read_frame as a function of the bytes the source delivers before it ends
RECURSIVE RunFrom(_, _)
RunFrom(st, s) ==
    IF st.done THEN st
    ELSE IF s = <<>> THEN AtEOF(st)
    ELSE RunFrom(Step(st, Head(s)), Tail(s))

ReadFrameOn(s) == RunFrom(NewCall(<<>>), s)


\* ------------------------------------------------------------------------
\* Teleinflux.run: what the loop does with the outcome of read_frame
\* ------------------------------------------------------------------------
\* mutant: no except clause, the checksum error leaves run
AfterRead_fatal(kind) ==
    CASE kind = "None" -> "done"
      [] kind = "frame" -> "write"
      [] OTHER -> "aborted"

\* mutant: no break, the loop goes on after None
AfterRead_nobreak(kind) ==
    CASE kind = "TeleinfoException" -> "loop"
      [] kind = "None" -> "loop"
      [] kind = "frame" -> "write"
      [] OTHER -> "aborted"

\* "loop": 'continue' after the warning; "done": 'break'; "write": the frame
\* goes to _write_measurement; "aborted": the exception leaves run
AfterRead(kind) ==
    CASE kind = "TeleinfoException" -> "loop"
      [] kind = "None" -> "done"
      [] kind = "frame" -> "write"
      [] OTHER -> "aborted"

\* mutant: the loop does not look at the flag
LoopCondition_ignore(flag) == TRUE

\* 'while self._running'
LoopCondition(flag) == flag

\* mutant: the handle is closed on the normal exits only, as a close() after
\* the loop would
ExitWith_noerror(how, h) ==
    IF how = "error" THEN h ELSE [open |-> FALSE, closes |-> h.closes + 1]

\* __exit__ at the end of the with block, however the block is left: "stop"
\* (loop condition false), "break" (no more data) or "error" (an exception
\* propagates); h is the handle, open or not, and the close() calls so far
ExitWith(how, h) == [open |-> FALSE, closes |-> h.closes + 1]

\* what _write_measurement can come to: a write succeeded within the
\* attempts, every attempt failed, or the client raised another error
DbOutcomes == {"ok", "failed", "raise"}

\* ------------------------------------------------------------------------
\* The meter: what the byte source can deliver
\* ------------------------------------------------------------------------
\* the checksum byte a meter appends to '<LABEL><SP><VALUE>'
WireChecksum(body) == (Sum(body) % 64) + 32

MkLine(label, value) ==
    label \o <<SP>> \o value \o <<SP, WireChecksum(label \o <<SP>> \o value)>>

\* "A B C" and "IMAX q  " (the checksum of "IMAX q" is the space byte; IMAX
\* is typed 'int' and "q" is not an integer)
GoodLines ==
    { MkLine(<<65>>, <<66>>), MkLine(<<73, 77, 65, 88>>, <<113>>) }

\* "A B D" (wrong checksum), "A B" (two tokens), "A B " (empty checksum),
\* "P P @Y" (two bytes after the second space)
BadLines ==
    { <<65, 32, 66, 32, 68>>, <<65, 32, 66>>, <<65, 32, 66, 32>>,
      <<80, 32, 80, 32, 64, 89>> }

Lines == GoodLines \cup BadLines

SeqsOver(S, n) == UNION {[1..k -> S] : k \in 0..n}

RECURSIVE Join(_)
Join(ls) ==
    IF ls = <<>> THEN <<>>
    ELSE IF Len(ls) = 1 THEN ls[1]
    ELSE ls[1] \o CRLF \o Join(Tail(ls))

\* a payload as such, or framed the way a meter does: LF before, CR after
Pads == { <<<<>>, <<>>>>, <<<<LF>>, <<CR>>>> }

PayloadsOf(L, n) ==
    {pad[1] \o Join(ls) \o pad[2] : ls \in SeqsOver(L, n), pad \in Pads}

Payloads == PayloadsOf(Lines, MaxLines)

FramesOf(P) == {<<STX>> \o p \o <<ETX>> : p \in P}

FrameSegs == FramesOf(Payloads)

\* a frame cut before its end marker
TruncSegs == {<<STX>> \o l : l \in GoodLines}

\* bytes without a start marker
NoiseSegs == { <<ETX>>, <<66, ETX, 65>> }

Segments == FrameSegs \cup TruncSegs \cup NoiseSegs

\* what the meter adds while bytes still wait: frames of one line at most
ShortSegments == FramesOf(Lines \cup {<<>>}) \cup NoiseSegs

IsFrameSeg(seg) ==
    /\ Len(seg) >= 2
    /\ seg[1] = STX
    /\ seg[Len(seg)] = ETX
    /\ \A i \in 2..(Len(seg) - 1) : seg[i] \notin {STX, ETX}

\* ------------------------------------------------------------------------
\* Frames handed to a caller of the accessors
\* ------------------------------------------------------------------------
\* the labels of _FIELD_FORMAT, in its order: ADCO OPTARIF ISOUSC HCHC HCHP
\* PTEC IINST IMAX PAPP HHPHC MOTDETAT
KnownLabels ==
    { <<65, 68, 67, 79>>, <<79, 80, 84, 65, 82, 73, 70>>,
      <<73, 83, 79, 85, 83, 67>>, <<72, 67, 72, 67>>, <<72, 67, 72, 80>>,
      <<80, 84, 69, 67>>, <<73, 73, 78, 83, 84>>, <<73, 77, 65, 88>>,
      <<80, 65, 80, 80>>, <<72, 72, 80, 72, 67>>,
      <<77, 79, 84, 68, 69, 84, 65, 84>> }

\* "A", a label the table does not know, and "Z", one no line carries
UnknownLabel == <<65>>
AbsentLabel == <<90>>

\* "012", "q", "a..", ""
FieldValues == { <<48, 49, 50>>, <<113>>, <<97, 46, 46>>, <<>> }

\* well-formed lines of every known label and of the unknown one
FieldLines ==
    {MkLine(l, v) : l \in KnownLabels \cup {UnknownLabel}, v \in FieldValues}

\* "IMAX 012", "IMAX q", "A a..": lines to repeat a label with
RepeatLines ==
    { MkLine(<<73, 77, 65, 88>>, <<48, 49, 50>>),
      MkLine(<<73, 77, 65, 88>>, <<113>>),
      MkLine(UnknownLabel, <<97, 46, 46>>) }

\* payloads of one line, and of several lines with repeated labels
FramePayloads ==
    FieldLines \cup
    {Join(ls) : ls \in SeqsOver(RepeatLines, MaxLines) \ SeqsOver(RepeatLines, 1)}

\* set(key, value): IMAX (int), ADCO (str) and the unknown label; 70, -3,
\* "q."
SetKeys == { <<73, 77, 65, 88>>, <<65, 68, 67, 79>>, UnknownLabel }
SetValues == { IntValue(70), IntValue(0 - 3), StrValue(<<113, 46>>) }

\* ------------------------------------------------------------------------
\* _write_measurement
\* ------------------------------------------------------------------------
\* mutant: one attempt more than configured
InRange_more(i, n) == i <= n

\* 'for __ in range(self._influx_write_attemps)': there is an iteration
\* after i iterations
InRange(i, n) == i < n

\* write_points returns True or False, raises InfluxDBServerError, or raises
\* anything else
WriteOutcomes == {"true", "false", "InfluxDBServerError", "error"}

\* ------------------------------------------------------------------------
\* State
\* ------------------------------------------------------------------------
VARIABLES
    pending,       \* bytes delivered by the source and not read yet
    closed,        \* the source has reached its end
    nfed,          \* segments delivered so far
    pc,            \* run: "loop", "read", "ret", "done", "aborted"
    running,       \* self._running
    reader_open,   \* the handle of self._reader is open
    closes,        \* calls of self._reader.close() so far
    started,       \* read_frame local
    frame_buffer,  \* read_frame local
    result,        \* what the last read_frame call returned or raised
    written,       \* number of measurements the database accepted
    consumed,      \* history: bytes read by the current read_frame call
    last_read,     \* history: how the last read(1) ended
    due,           \* history: payloads of the frames fed and not returned yet
    clean,         \* history: only complete frames were fed so far
    prev_kind,     \* history: how the call before the current one ended
    frame,         \* a TeleinfoFrame in the hands of a caller, or NoFrame
    now,           \* datetime.utcnow()
    payload,       \* history: the payload frame was parsed from, <<>> once
                   \* set has changed it
    got,           \* history: the last call on frame and its outcome
    formatted,     \* history: format_fields calls since frame was last
                   \* written, two at most, and the outcome of the last one
    nsets,         \* set() calls on frame so far
    influx_write_attemps,  \* self._influx_write_attemps
    outcomes,      \* history: outcome of each write_points call of the current
                   \* _write_measurement call
    write_ret      \* what _write_measurement returned: "none" (not yet),
                   \* "True", "False", "raised"

runVars == <<pending, closed, nfed, pc, running, reader_open, closes, started,
             frame_buffer, result, written, consumed, last_read, due, clean,
             prev_kind>>
frameVars == <<frame, now, payload, got, formatted, nsets>>
writeVars == <<influx_write_attemps, outcomes, write_ret>>
auxVars == <<frameVars, writeVars>>
vars == <<runVars, frameVars, writeVars>>

srcVars == <<pending, closed, nfed>>
callVars == <<started, frame_buffer, result, consumed, last_read, prev_kind>>

NoValue == [type |-> "none", int |-> 0, str |-> <<>>]
NoCall == [op |-> "none", key |-> <<>>, arg |-> NoValue, exc |-> "", out |-> <<>>]
NoOutcome == [n |-> 0, exc |-> "", out |-> <<>>]

InitFrame ==
    /\ frame = NoFrame
    /\ now = 0
    /\ payload = <<>>
    /\ got = NoCall
    /\ formatted = NoOutcome
    /\ nsets = 0

\* write_attempts of the configuration is n
InitWrite(n) ==
    /\ influx_write_attemps = n
    /\ outcomes = <<>>
    /\ write_ret = "none"

InitRun ==
    /\ pending = <<>>
    /\ closed = FALSE
    /\ nfed = 0
    /\ pc = "loop"
    /\ running = TRUE
    /\ reader_open = TRUE
    /\ closes = 0
    /\ started = FALSE
    /\ frame_buffer = <<>>
    /\ result = Raise("nocall")
    /\ written = 0
    /\ consumed = <<>>
    /\ last_read = "none"
    /\ due = <<>>
    /\ clean = TRUE
    /\ prev_kind = "nocall"

\* fallback=3 of write_attempts
Init == InitRun /\ InitFrame /\ InitWrite(3)

Live == pc \notin {"done", "aborted"}

ReaderHandle == [open |-> reader_open, closes |-> closes]

\* the with block is left
Exit(how) ==
    /\ reader_open' = ExitWith(how, ReaderHandle).open
    /\ closes' = ExitWith(how, ReaderHandle).closes

\* ------------------------------------------------------------------------
\* The byte source
\* ------------------------------------------------------------------------
\* the meter delivers its next segment; the program sees the source only
\* through read(1), so delivery is modelled while a read is under way
Feed ==
    /\ pc = "read"
    /\ ~closed
    /\ nfed < MaxSegments
    /\ Len(pending) <= MaxPending
    /\ \E seg \in (IF pending = <<>> THEN Segments ELSE ShortSegments) :
        /\ pending' = pending \o seg
        /\ nfed' = nfed + 1
        /\ clean' = (clean /\ IsFrameSeg(seg))
        /\ due' = IF clean' THEN Append(due, SubSeq(seg, 2, Len(seg) - 1)) ELSE <<>>
        /\ UNCHANGED <<closed, pc, running, reader_open, closes, written>>
        /\ UNCHANGED callVars
    /\ UNCHANGED auxVars

\* ------------------------------------------------------------------------
\* read_frame
\* ------------------------------------------------------------------------
Locals == [started |-> started, frame_buffer |-> frame_buffer,
           done |-> FALSE, result |-> NoneResult]

\* entry of read_frame
Enter ==
    LET st == NewCall(frame_buffer)
    IN  /\ pc' = "read"
        /\ started' = st.started
        /\ frame_buffer' = st.frame_buffer
        /\ result' = st.result
        /\ consumed' = <<>>
        /\ last_read' = "none"
        /\ prev_kind' = result.kind

\* the locals after a step, and the return when the step ends the call
Leave(st) ==
    /\ started' = st.started
    /\ frame_buffer' = st.frame_buffer
    /\ result' = st.result
    /\ pc' = IF st.done THEN "ret" ELSE "read"

\* read(1) delivers a byte
ReadByte ==
    /\ pc = "read"
    /\ pending # <<>>
    /\ Leave(Step(Locals, Head(pending)))
    /\ pending' = Tail(pending)
    /\ consumed' = Append(consumed, Head(pending))
    /\ last_read' = "byte"
    /\ UNCHANGED <<closed, nfed, running, reader_open, closes, written, due, clean,
                   prev_kind>>
    /\ UNCHANGED auxVars

\* read(1) returns b'' at the end of the stream: the source has ended, which
\* the program observes here and nowhere else
ReadEOF ==
    /\ pc = "read"
    /\ pending = <<>>
    /\ closed' = TRUE
    /\ Leave(AtEOF(Locals))
    /\ last_read' = "eof"
    /\ UNCHANGED <<pending, nfed, consumed, running, reader_open, closes, written,
                   due, clean, prev_kind>>
    /\ UNCHANGED auxVars

\* read(1) on the serial port returns b'' when its timeout elapses
ReadTimeout ==
    /\ pc = "read"
    /\ pending = <<>>
    /\ ~closed
    /\ Leave(AtEOF(Locals))
    /\ last_read' = "timeout"
    /\ UNCHANGED <<consumed, running, reader_open, closes, written, due, clean,
                   prev_kind>>
    /\ UNCHANGED srcVars
    /\ UNCHANGED auxVars

\* ------------------------------------------------------------------------
\* Teleinflux.run and the signal handler
\* ------------------------------------------------------------------------
\* 'while self._running', then the call of read_frame or the exit
LoopCheck ==
    /\ pc = "loop"
    /\ IF LoopCondition(running)
       THEN /\ Enter
            /\ UNCHANGED <<reader_open, closes>>
       ELSE /\ pc' = "done"
            /\ Exit("stop")
            /\ UNCHANGED callVars
    /\ UNCHANGED <<running, written, due, clean>>
    /\ UNCHANGED srcVars
    /\ UNCHANGED auxVars

\* the rest of the loop body once read_frame has returned or raised
Handle ==
    /\ pc = "ret"
    /\ due' = IF due = <<>> THEN due ELSE Tail(due)
    /\ LET next == AfterRead(result.kind)
       IN  IF next = "write"
           THEN IF FormatRaises(result.fields)
                THEN /\ pc' = "aborted"
                     /\ Exit("error")
                     /\ UNCHANGED written
                ELSE \E db \in DbOutcomes :
                        /\ written' = IF db = "ok" THEN written + 1 ELSE written
                        /\ pc' = IF db = "raise" THEN "aborted" ELSE "loop"
                        /\ IF db = "raise" THEN Exit("error")
                           ELSE UNCHANGED <<reader_open, closes>>
           ELSE /\ pc' = next
                /\ UNCHANGED written
                /\ CASE next = "loop" -> UNCHANGED <<reader_open, closes>>
                     [] next = "done" -> Exit("break")
                     [] OTHER -> Exit("error")
    /\ UNCHANGED <<running, clean>>
    /\ UNCHANGED callVars
    /\ UNCHANGED srcVars
    /\ UNCHANGED auxVars

SigHandler ==
    /\ Live
    /\ running
    /\ running' = FALSE
    /\ UNCHANGED <<pc, reader_open, closes, written, due, clean>>
    /\ UNCHANGED callVars
    /\ UNCHANGED srcVars
    /\ UNCHANGED auxVars

Next ==
    \/ Feed
    \/ LoopCheck
    \/ ReadByte
    \/ ReadEOF
    \/ ReadTimeout
    \/ Handle
    \/ SigHandler

Spec == Init /\ [][Next]_vars

\* ------------------------------------------------------------------------
\* The reader under a caller that calls read_frame again whatever the
\* previous call returned or raised
\* ------------------------------------------------------------------------
Call ==
    /\ pc \in {"loop", "ret"}
    /\ Enter
    /\ due' = IF pc = "ret" /\ due # <<>> THEN Tail(due) ELSE due
    /\ UNCHANGED <<running, reader_open, closes, written, clean>>
    /\ UNCHANGED srcVars
    /\ UNCHANGED auxVars

NextReader ==
    \/ Feed
    \/ Call
    \/ ReadByte
    \/ ReadEOF
    \/ ReadTimeout

SpecReader == Init /\ [][NextReader]_vars


\* ------------------------------------------------------------------------
\* run on a file (input_file): the stream is finite, read(1) returns at once
\* with a byte or with b'' at the end of the file, and no signal comes.
\* Every step of the program is taken in the end; the file has the segments
\* fed before its end is read
\* ------------------------------------------------------------------------
\* read(1) takes the next byte off the source: the step ReadByte, as the
\* source sees it
ReadStep ==
    /\ pc = "read"
    /\ pending # <<>>
    /\ pending' = Tail(pending)

NextFile ==
    \/ Feed
    \/ LoopCheck
    \/ ReadByte
    \/ ReadEOF
    \/ Handle

SpecFile ==
    /\ Init
    /\ [][NextFile]_vars
    /\ WF_vars(LoopCheck)
    /\ WF_pending(ReadStep)
    /\ WF_vars(ReadEOF)
    /\ WF_vars(Handle)

\* ------------------------------------------------------------------------
\* A caller that reads one frame from a stream and uses its accessors
\* ------------------------------------------------------------------------
Called(op, key, arg, c) ==
    [op |-> op, key |-> key, arg |-> arg, exc |-> c.exc, out |-> c.out]

\* time passes
Tick ==
    /\ now < MaxClock
    /\ now' = now + 1
    /\ UNCHANGED <<frame, payload, got, formatted, nsets>>
    /\ UNCHANGED <<runVars, writeVars>>

\* read_frame on a stream that holds one frame; _parse_frame constructs the
\* record, which takes the time of the clock
ReadRecord ==
    /\ got.op = "none"
    /\ \E p \in FramePayloads :
        LET r == ReadFrameOn(<<STX>> \o p \o <<ETX>>).result
        IN  /\ frame' = IF r.kind = "frame" THEN NewFrame(r.fields, now)
                        ELSE NoFrame
            /\ payload' = p
            /\ got' = [NoCall EXCEPT !.op = "read_frame",
                                     !.exc = IF r.kind = "frame" THEN "" ELSE r.kind]
    /\ UNCHANGED <<now, formatted, nsets>>
    /\ UNCHANGED <<runVars, writeVars>>

\* frame.get(key), for the keys of the record and one it lacks
GetField ==
    /\ frame # NoFrame
    /\ \E key \in {frame.raw_data[i][1] : i \in 1..Len(frame.raw_data)}
                   \cup {AbsentLabel} :
        LET c == FrameGet(frame, key)
        IN  /\ frame' = c.frame
            /\ got' = Called("get", key, NoValue, c)
    /\ UNCHANGED <<now, payload, formatted, nsets>>
    /\ UNCHANGED <<runVars, writeVars>>

\* frame.format_fields()
FormatAll ==
    /\ frame # NoFrame
    /\ LET c == FrameFormatFields(frame)
       IN  /\ frame' = c.frame
           /\ got' = Called("format_fields", <<>>, NoValue, c)
           /\ formatted' = [n |-> IF formatted.n < 2 THEN formatted.n + 1 ELSE 2,
                            exc |-> c.exc, out |-> c.out]
    /\ UNCHANGED <<now, payload, nsets>>
    /\ UNCHANGED <<runVars, writeVars>>

\* frame.set(key, value)
SetField ==
    /\ frame # NoFrame
    /\ nsets < MaxSets
    /\ \E key \in SetKeys, value \in SetValues :
        /\ frame' = FrameSet(frame, key, value)
        /\ got' = [NoCall EXCEPT !.op = "set", !.key = key, !.arg = value]
    /\ payload' = <<>>
    /\ formatted' = NoOutcome
    /\ nsets' = nsets + 1
    /\ UNCHANGED now
    /\ UNCHANGED <<runVars, writeVars>>

NextRecord ==
    \/ Tick
    \/ ReadRecord
    \/ GetField
    \/ FormatAll
    \/ SetField

SpecRecord == Init /\ [][NextRecord]_vars

\* ------------------------------------------------------------------------
\* One call of _write_measurement, for every write_attempts of the
\* configuration up to MaxAttempts
\* ------------------------------------------------------------------------
\* an iteration of the loop: write_points, then return True, go on after
\* False or InfluxDBServerError, or let another exception through
WritePoints ==
    /\ write_ret = "none"
    /\ InRange(Len(outcomes), influx_write_attemps)
    /\ \E o \in WriteOutcomes :
        /\ outcomes' = Append(outcomes, o)
        /\ write_ret' = CASE o = "true" -> "True"
                           [] o = "error" -> "raised"
                           [] OTHER -> "none"
    /\ UNCHANGED influx_write_attemps
    /\ UNCHANGED <<runVars, frameVars>>

\* the loop is over: logging.error, return False
ReturnFalse ==
    /\ write_ret = "none"
    /\ ~InRange(Len(outcomes), influx_write_attemps)
    /\ write_ret' = "False"
    /\ UNCHANGED <<influx_write_attemps, outcomes>>
    /\ UNCHANGED <<runVars, frameVars>>

NextWrite ==
    \/ WritePoints
    \/ ReturnFalse

InitWriteAny ==
    /\ InitRun
    /\ InitFrame
    /\ \E n \in 0..MaxAttempts : InitWrite(n)

SpecWrite == InitWriteAny /\ [][NextWrite]_vars

\* ------------------------------------------------------------------------
\* Vocabulary of the properties
\* ------------------------------------------------------------------------
Bytes(s) == {s[i] : i \in 1..Len(s)}

\* index of the first occurrence of byte b in s, 0 when absent
FirstIdx(s, b) ==
    LET hits == {i \in 1..Len(s) : s[i] = b}
    IN  IF hits = {} THEN 0 ELSE CHOOSE i \in hits : \A j \in hits : i <= j

\* s from its first start marker on, empty when it has none
FromStart(s) ==
    IF FirstIdx(s, STX) = 0 THEN <<>> ELSE SubSeq(s, FirstIdx(s, STX), Len(s))

\* the call has returned or raised after the end marker of a frame
Parsed == pc = "ret" /\ last_read = "byte"

\* the lines of the payload handed to the parser
BufferLines == FrameLines(frame_buffer)

NumSpaces(line) == Cardinality({i \in 1..Len(line) : line[i] = SP})

\* the wire format's equation: the byte that ends the line is the checksum
\* of the line without its last two bytes
WireValid(line) ==
    /\ Len(line) >= 2
    /\ WireChecksum(DropLast2(line)) = line[Len(line)]

\* fewer than three space-delimited tokens, or nothing after the second space
Malformed(line) ==
    \/ NumSpaces(line) < 2
    \/ SplitSP(line, 2)[3] = <<>>

\* three tokens, the third a single byte that is not the line's checksum
ChecksumFails(line) ==
    /\ ~Malformed(line)
    /\ Len(SplitSP(line, 2)[3]) = 1
    /\ ~WireValid(line)

Offending(line) == Malformed(line) \/ ChecksumFails(line)

\* line k is the first offending line of the payload
FirstOffence(lines, k) ==
    /\ k \in 1..Len(lines)
    /\ Offending(lines[k])
    /\ \A j \in 1..(k - 1) : ~Offending(lines[j])

\* payloads of one line at least, all well formed with the right checksum
GoodPayloads == PayloadsOf(GoodLines, MaxLines) \ PayloadsOf(GoodLines, 0)

\* a well-formed line whose checksum byte was replaced by another byte
CorruptedLines ==
    {[l EXCEPT ![Len(l)] = c] : l \in GoodLines, c \in {32, 64, 68, 95}} \ GoodLines

CorruptedPayloads ==
    PayloadsOf(GoodLines \cup CorruptedLines, MaxLines) \ PayloadsOf(GoodLines, MaxLines)

\* ------------------------------------------------------------------------
\* C1: every field of a record returned by read_frame comes from a line of
\* the payload that satisfies the wire format's checksum equation
\* ------------------------------------------------------------------------
C1_FieldsValidated ==
    (Parsed /\ result.kind = "frame") =>
        \A i \in 1..Len(result.fields) :
            \E k \in 1..Len(BufferLines) :
                /\ NumSpaces(BufferLines[k]) >= 2
                /\ SplitSP(BufferLines[k], 2)[1] = result.fields[i][1]
                /\ SplitSP(BufferLines[k], 2)[2] = result.fields[i][2]
                /\ WireValid(BufferLines[k])

C3_WellFormedAccepted ==
    /\ (Parsed /\ frame_buffer \in GoodPayloads) => result.kind = "frame"
    /\ (Parsed /\ frame_buffer \in CorruptedPayloads) => result.kind # "frame"

\* ------------------------------------------------------------------------
\* C4: over a stream of complete frames the calls return the outcomes of
\* the frames' payloads one by one and in order, then 'no more data'; each
\* call starts Idle with an empty buffer and reads up to the end marker of
\* its frame and no further
\* ------------------------------------------------------------------------
C4_FramesInOrder ==
    /\ (pc = "read" /\ consumed = <<>>) => (~started /\ frame_buffer = <<>>)
    /\ (pc = "ret" /\ clean) =>
          IF due = <<>>
          THEN result = NoneResult /\ consumed = <<>>
          ELSE /\ result = ParseFrame(Head(due))
               /\ consumed = <<STX>> \o Head(due) \o <<ETX>>

C4_Witness ==
    /\ pc = "ret"
    /\ clean
    /\ nfed = 2
    /\ Len(due) = 1
    /\ prev_kind = "ValueError"
    /\ result.kind = "frame"

\* ------------------------------------------------------------------------
\* C5: bytes read before the first start marker (end markers included) are
\* discarded: the call ends as it does on the stream without them, with the
\* same payload
\* ------------------------------------------------------------------------
C5_IdleDiscards ==
    /\ (pc = "read" /\ ~started) => (frame_buffer = <<>> /\ STX \notin Bytes(consumed))
    /\ pc = "ret" =>
          LET alone == ReadFrameOn(FromStart(consumed))
          IN  /\ result = alone.result
              /\ frame_buffer = alone.frame_buffer

C5_Witness ==
    /\ Parsed
    /\ result.kind = "frame"
    /\ FirstIdx(consumed, STX) > 2
    /\ ETX \in Bytes(SubSeq(consumed, 1, FirstIdx(consumed, STX) - 1))

\* ------------------------------------------------------------------------
\* C6: a start marker read while capturing is appended to the payload; the
\* payload handed to the parser is the bytes between the first start marker
\* and the first end marker that follows it
\* ------------------------------------------------------------------------
C6_StartWhileCapturing ==
    /\ (pc = "read" /\ started) =>
          frame_buffer = Tail(FromStart(consumed))
    /\ Parsed =>
          /\ FromStart(consumed) # <<>>
          /\ frame_buffer \o <<ETX>> = Tail(FromStart(consumed))
          /\ ETX \notin Bytes(frame_buffer)
          /\ result = ParseFrame(frame_buffer)

C6_Witness ==
    /\ Parsed
    /\ STX \in Bytes(frame_buffer)

\* ------------------------------------------------------------------------
\* C7: when the stream ends while capturing, read_frame returns None: the
\* captured bytes are not parsed and nothing is written
\* ------------------------------------------------------------------------
C7_EndWhileCapturing ==
    [][(pc = "read" /\ started /\ closed' /\ pc' # pc) =>
          (pc' = "ret" /\ result' = NoneResult /\ written' = written)]_vars

C7_Witness ==
    /\ pc = "ret"
    /\ last_read = "eof"
    /\ started
    /\ frame_buffer \in GoodLines
    /\ result = NoneResult

C9_MalformedRecoverable ==
    (/\ pc \in {"ret", "loop", "aborted"}
     /\ last_read = "byte"
     /\ \E k \in 1..Len(BufferLines) :
            /\ FirstOffence(BufferLines, k)
            /\ BufferLines[k] # <<>>
            /\ NumSpaces(BufferLines[k]) < 2) =>
        (result.kind = "TeleinfoException" /\ pc # "aborted")

\* ------------------------------------------------------------------------
\* C10: an empty or whitespace-only payload yields a record without fields
\* and no error
\* ------------------------------------------------------------------------
C10_EmptyPayloadEmptyRecord ==
    (Parsed /\ Strip(frame_buffer) = <<>>) => result = Frame(<<>>)

\* ------------------------------------------------------------------------
\* C11: read_frame signals 'no more data' only at the end of the stream: a
\* read that timed out with zero bytes, idle or capturing, does not make it
\* return None nor stop the loop
\* ------------------------------------------------------------------------
C11_TimeoutNotStreamEnd ==
    /\ (pc = "ret" /\ result = NoneResult) => last_read = "eof"
    /\ (pc = "done" /\ result = NoneResult /\ last_read # "none") => closed

\* ------------------------------------------------------------------------
\* C12: the handle is open as long as the loop of run is in the with block
\* and is closed by exactly one close() once the block is left, by the loop
\* condition, by the break or by an exception; no read happens on a closed
\* handle
\* ------------------------------------------------------------------------
C12_ReleasedExactlyOnce ==
    /\ Live => (reader_open /\ closes = 0)
    /\ ~Live => (~reader_open /\ closes = 1)
    /\ pc = "read" => reader_open

C12_Witness ==
    /\ pc = "aborted"
    /\ result.kind = "frame"
    /\ ~reader_open
    /\ closes = 1

PayloadLines == FrameLines(payload)

\* the record is as read_frame returned it
AsRead == frame # NoFrame /\ payload # <<>>

\* the labels typed Integer: ISOUSC, HCHC, HCHP, IINST, IMAX, PAPP
IntegerLabels ==
    { <<73, 83, 79, 85, 83, 67>>, <<72, 67, 72, 67>>, <<72, 67, 72, 80>>,
      <<73, 73, 78, 83, 84>>, <<73, 77, 65, 88>>, <<80, 65, 80, 80>> }

\* t is a decimal integer: an optional sign, then digits
IsDecimal(t) ==
    LET d == IF t # <<>> /\ t[1] \in {43, 45} THEN Tail(t) ELSE t
    IN  d # <<>> /\ \A i \in 1..Len(d) : d[i] \in 48..57

\* t without its trailing '.' bytes
NoTrailingDots(t) ==
    LET keep == {i \in 1..Len(t) : t[i] # DOT}
    IN  IF keep = {} THEN <<>>
        ELSE SubSeq(t, 1, CHOOSE i \in keep : \A j \in keep : j <= i)

\* ------------------------------------------------------------------------
\* C14: the labels of a record are unique, and a label that several
\* validated lines of the payload carry holds the raw value of the last of
\* them
\* ------------------------------------------------------------------------
C14_LastOccurrenceWins ==
    AsRead =>
        /\ \A i, j \in 1..Len(frame.raw_data) :
              frame.raw_data[i][1] = frame.raw_data[j][1] => i = j
        /\ \A k \in 1..Len(PayloadLines) :
              LET label == SplitSP(PayloadLines[k], 2)[1]
                  last == CHOOSE m \in 1..Len(PayloadLines) :
                              /\ SplitSP(PayloadLines[m], 2)[1] = label
                              /\ \A n \in (m + 1)..Len(PayloadLines) :
                                    SplitSP(PayloadLines[n], 2)[1] # label
              IN  /\ HasKey(frame.raw_data, label)
                  /\ DictGet(frame.raw_data, label) = SplitSP(PayloadLines[last], 2)[2]

C14_Witness ==
    /\ AsRead
    /\ Len(PayloadLines) = 2
    /\ Len(frame.raw_data) = 1
    /\ SplitSP(PayloadLines[1], 2)[2] # SplitSP(PayloadLines[2], 2)[2]

C17_SetStoresText ==
    [][/\ (nsets' = nsets + 1) =>
             LET k == got'.key
                 a == got'.arg
             IN  /\ got'.op = "set" /\ got'.exc = ""
                 /\ HasKey(frame'.raw_data, k)
                 /\ a.type = "str" => DictGet(frame'.raw_data, k) = a.str
                 /\ a.type = "int" =>
                       /\ IsDecimal(DictGet(frame'.raw_data, k))
                       /\ FormatInt(DictGet(frame'.raw_data, k)) = a.int
                 /\ \A i \in 1..Len(frame.raw_data) :
                       frame.raw_data[i][1] # k =>
                           /\ HasKey(frame'.raw_data, frame.raw_data[i][1])
                           /\ DictGet(frame'.raw_data, frame.raw_data[i][1])
                                  = frame.raw_data[i][2]
                 /\ \A i \in 1..Len(frame'.raw_data) :
                       frame'.raw_data[i][1] # k =>
                           HasKey(frame.raw_data, frame'.raw_data[i][1])
                 /\ \A i, j \in 1..Len(frame'.raw_data) :
                       frame'.raw_data[i][1] = frame'.raw_data[j][1] => i = j
                 /\ frame'.utc_time = frame.utc_time
       /\ (got.op = "set" /\ got'.op = "get" /\ got'.key = got.key) =>
             LET a == got.arg
                 g == got'.out[1][2]
             IN  IF got.key \in IntegerLabels
                 THEN IF a.type = "int"
                      THEN got'.exc = "" /\ g.type = "int" /\ g.int = a.int
                      ELSE IF IsDecimal(a.str)
                      THEN got'.exc = "" /\ g.type = "int" /\ g.int = FormatInt(a.str)
                      ELSE got'.exc = "ValueError"
                 ELSE /\ got'.exc = ""
                      /\ g.type = "str"
                      /\ IF a.type = "int"
                         THEN IsDecimal(g.str) /\ FormatInt(g.str) = a.int
                         ELSE g.str = NoTrailingDots(a.str)]_vars

C17_Witness ==
    /\ nsets = 1
    /\ Len(frame.raw_data) = 2
    /\ got.op = "get"
    /\ got.key = <<73, 77, 65, 88>>
    /\ got.exc = ""
    /\ got.out[1][2].int = 70

\* ------------------------------------------------------------------------
\* C18: get and format_fields leave the raw fields and the capture time as
\* they are, and a format_fields call returns what the format_fields call
\* before it returned when no set came in between
\* ------------------------------------------------------------------------
C18_AccessReadOnly ==
    [][/\ (got'.op \in {"get", "format_fields"}
              /\ <<got, frame, formatted>>' # <<got, frame, formatted>>) =>
             frame' = frame
       /\ (got'.op = "format_fields" /\ formatted'.n = 2) =>
             (formatted'.exc = formatted.exc /\ formatted'.out = formatted.out)]_vars

C18_Witness ==
    /\ formatted.n = 2
    /\ got.op = "format_fields"
    /\ Len(formatted.out) = 2
    /\ \E i \in 1..2 : frame.raw_data[i][2] # formatted.out[i][2].str

\* a write_points call that did not succeed and lets the loop go on
Failed(o) == o \in {"false", "InfluxDBServerError"}

\* ------------------------------------------------------------------------
\* C19: _write_measurement calls write_points at most write_attempts times,
\* stops at the first success and returns True, and returns False only after
\* write_attempts calls that each returned False or raised a server error:
\* with write_attempts = 0, after no call at all.  It returns True only when
\* a write succeeded
\* ------------------------------------------------------------------------
C19_WriteAttempts ==
    /\ Len(outcomes) <= influx_write_attemps
    /\ \A i \in 1..(Len(outcomes) - 1) : Failed(outcomes[i])
    /\ write_ret = "True" <=>
          (outcomes # <<>> /\ outcomes[Len(outcomes)] = "true")
    /\ write_ret = "False" =>
          /\ Len(outcomes) = influx_write_attemps
          /\ \A i \in 1..Len(outcomes) : Failed(outcomes[i])
    /\ (write_ret = "none" /\ outcomes # <<>>) => Failed(outcomes[Len(outcomes)])
    /\ (influx_write_attemps = 0 /\ write_ret # "none") =>
          (write_ret = "False" /\ outcomes = <<>>)

C19_Witness ==
    /\ write_ret = "False"
    /\ influx_write_attemps = 3
    /\ outcomes = <<"false", "InfluxDBServerError", "false">>

====
